---- MODULE Spec2Model ----
(***************************************************************************)
(* A model of ferminet/pretrain.py (Hartree-Fock pretraining loop and the  *)
(* evaluation of SCF orbitals) and of the periodicity test of the PBC      *)
(* local energy in ferminet/pbc/tests/hamiltonian_test.py.                 *)
(*                                                                         *)
(* Three state machines share the module:                                  *)
(*   Spec / FairSpec : pretrain_hartree_fock and pretrain_step             *)
(*   OrbSpec         : eval_orbitals applied to one input                  *)
(*   PbcSpec         : test_periodicity                                    *)
(* The variables of the machines a specification does not run stay at the  *)
(* idle values its initial predicate gives them.                           *)
(***************************************************************************)
EXTENDS Integers, Sequences, FiniteSets, TLC

VARIABLES
  \* ---- pretrain_hartree_fock: arguments
  iterations, logger, netKind, params0, data0,
  \* ---- pretrain_hartree_fock: locals
  pc, t, params, data, sharded_key, subkeys, opt_state_pt, target, loss,
  logprob, ret,
  \* ---- pretrain_hartree_fock: the calls made so far
  nSteps, nEvals, nSplits, logCalls, stepLosses, lastOut, mhCalls,
  \* ---- eval_orbitals: arguments, position in the function, outcome
  posKind, pos, nspins, nbasis, orbPc, orbOut, evalMosCalls,
  \* ---- test_periodicity: locals and verdict
  pbcPc, key, xs, netParams, e_idx, randvec, e1, e2, verdict

pretrainVars == <<iterations, logger, netKind, params0, data0, pc, t, params,
                  data, sharded_key, subkeys, opt_state_pt, target, loss,
                  logprob, ret, nSteps, nEvals, nSplits, logCalls, stepLosses,
                  lastOut, mhCalls>>

orbVars == <<posKind, pos, nspins, nbasis, orbPc, orbOut, evalMosCalls>>

pbcVars == <<pbcPc, key, xs, netParams, e_idx, randvec, e1, e2, verdict>>

vars == <<pretrainVars, orbVars, pbcVars>>

(***************************************************************************)
(* Bounds of the model.                                                    *)
(***************************************************************************)
MaxIter == 3
MaxParam == 2
MaxData == 1
NDevices == 2
MaxDim == 2
MaxSpin == 2
MaxBasis == 3
Grid == 2
MaxVec == 2

None == "None"

\* A local that is not bound yet: an integer local holds Unbound, a tuple-
\* valued one the empty tuple.
Unbound == 0 - 1
NoTuple == <<>>

ParamSet == 0..MaxParam
DataSet == 0..MaxData

(***************************************************************************)
(* Arrays: a shape and the elements in row-major order.                    *)
(***************************************************************************)
RECURSIVE Prod(_)
Prod(shape) == IF shape = <<>> THEN 1 ELSE Head(shape) * Prod(Tail(shape))

Array(shape, flat) == [shape |-> shape, flat |-> flat]

Min(a, b) == IF a < b THEN a ELSE b

\* shape[:-1]
Leading(shape) == SubSeq(shape, 1, Len(shape) - 1)

\* np.reshape(a, dims + [-1]): the elements keep their row-major order and
\* the last dimension is inferred from the size.
ReshapeInferLast(a, dims) ==
  Array(dims \o <<Len(a.flat) \div Prod(dims)>>, a.flat)

\* np.reshape(a, [-1, n]): the first dimension is inferred.
ReshapeInferFirst(a, n) == Array(<<Len(a.flat) \div n, n>>, a.flat)

\* a[..., rlo:rhi, :chi] on the last two axes, bounds clipped as Python
\* slices clip them.
SliceLastTwo(a, rlo, rhi, chi) ==
  LET lead == SubSeq(a.shape, 1, Len(a.shape) - 2)
      E == a.shape[Len(a.shape) - 1]
      B == a.shape[Len(a.shape)]
      lo == Min(rlo, E)
      hi == Min(rhi, E)
      R == IF hi > lo THEN hi - lo ELSE 0
      C == Min(chi, B)
  IN Array(lead \o <<R, C>>,
           [k \in 1..(Prod(lead) * R * C) |->
              LET b == (k - 1) \div (R * C)
                  i == ((k - 1) \div C) % R
                  j == (k - 1) % C
              IN a.flat[(b * E + lo + i) * B + j + 1]])

(***************************************************************************)
(* eval_orbitals                                                           *)
(***************************************************************************)

\* What pos may be: a NumPy array, a JAX array, or some other Python object.
ArrayKinds == {"ndarray", "jax"}
OtherKinds == {"list", "dict", "tuple", "float", "NoneType"}

\* isinstance(pos, np.ndarray)
IsNdarray(kind) == kind = "ndarray"
\* whether pos.copy exists: arrays, lists and dicts have the method.
HasCopy(kind) == kind \in {"ndarray", "jax", "list", "dict"}
\* whether pos.shape exists
HasShape(kind) == kind \in {"ndarray", "jax"}

\* scf_approx.eval_mos(pos) for pos of shape (n, 3): for each spin channel
\* an (n, nbasis) array whose [r, j] entry is molecular orbital j of that
\* channel at the position in row r.
MoValue(spin, j, xyz) == <<spin, j, xyz>>
EvalMosChannel(spin, rows, nb) ==
  Array(<<rows.shape[1], nb>>,
        [k \in 1..(rows.shape[1] * nb) |->
           LET r == (k - 1) \div nb
               j == (k - 1) % nb
           IN MoValue(spin, j, <<rows.flat[3 * r + 1], rows.flat[3 * r + 2],
                                 rows.flat[3 * r + 3]>>)])
EvalMos(rows, nb) ==
  <<EvalMosChannel("alpha", rows, nb), EvalMosChannel("beta", rows, nb)>>

\* Line 97: mos[0][..., :nspins[0], :nspins[0]]
AlphaSpin(mos, ns) ==
  SliceLastTwo(mos[1], 0, ns[1], ns[1])

\* Line 98: mos[1][..., nspins[0]:, :nspins[1]]
BetaSpin_Mutant(mos, ns) ==
  SliceLastTwo(mos[2], 0, ns[2], ns[2])
BetaSpin(mos, ns) ==
  SliceLastTwo(mos[2], ns[1], mos[2].shape[Len(mos[2].shape) - 1], ns[2])

\* Lines 89-99 for an array pos.
EvalOrbitalsArray(a, ns, nb) ==
  LET leading_dims == Leading(a.shape)
      rows == ReshapeInferFirst(a, 3)
      mos0 == EvalMos(rows, nb)
      mos == [s \in 1..2 |->
                ReshapeInferLast(mos0[s], leading_dims \o <<ns[1] + ns[2]>>)]
  IN <<AlphaSpin(mos, ns), BetaSpin(mos, ns)>>

\* The leading dimensions pos may have: none, one or two.
LeadSet == {<<>>} \cup {<<b>> : b \in 1..MaxDim}
             \cup {<<d, b>> : d \in 1..MaxDim, b \in 1..MaxDim}

\* pos of shape (..., nelec*3): every coordinate is a distinct symbol, its
\* row-major index.
PosArray(lead, nelec) ==
  Array(lead \o <<nelec * 3>>, [k \in 1..(Prod(lead) * nelec * 3) |-> k])

OrbIdle ==
  /\ posKind = None
  /\ pos = NoTuple
  /\ nspins = <<0, 0>>
  /\ nbasis = 0
  /\ orbPc = "idle"
  /\ orbOut = [status |-> "none", value |-> NoTuple]
  /\ evalMosCalls = 0

\* test_periodicity not running.
PbcIdle ==
  /\ pbcPc = "idle"
  /\ key = 0
  /\ xs = <<>>
  /\ netParams = 0
  /\ e_idx = Unbound
  /\ randvec = NoTuple
  /\ e1 = Unbound
  /\ e2 = Unbound
  /\ verdict = "none"

(***************************************************************************)
(* pretrain_hartree_fock                                                   *)
(***************************************************************************)

\* The logger argument: None, a function (always truthy), or a callable
\* object whose __bool__/__len__ makes it falsy (an empty list subclass that
\* defines __call__, say).
LoggerSet == {None, "function", "falsy_callable"}

\* bool(logger), as `if logger:` evaluates it.
Truthy(lg) == lg = "function"

\* batch_network(params, data): the caller's network.  Three shapes of
\* dependence on its arguments are enumerated.
NetKinds == {"const", "data_only", "full"}

batch_network(kind, p, x) ==
  CASE kind = "const" -> 0
    [] kind = "data_only" -> x
    [] kind = "full" -> p * (MaxData + 1) + x

\* eval_orbitals(scf_approx, data, electrons) as the loop uses it: the HF
\* orbitals at the current configurations.
HfTarget(x) == <<"hf", x>>

\* kfac_jax.utils.p_split: a key yields a new key and a subkey.
PSplitKey(k) == 2 * k + 1
PSplitSub(k) == 2 * k + 2

\* loss_fn(params, data, target), pmean-ed: one entry per device, all equal.
LossVal(p, x, tgt) == [d \in 1..NDevices |-> <<"loss", p, x, tgt>>]

\* optax.apply_updates(params, updates)
ApplyUpdates(p, u) == p + u

\* range(iterations): the loop body runs while the index is below iterations.
LoopContinues_Mutant(i, n) == i <= n
LoopContinues(i, n) == i < n

Init ==
  /\ iterations \in 0..MaxIter
  /\ logger \in LoggerSet
  /\ netKind \in NetKinds
  /\ params0 \in ParamSet
  /\ data0 \in DataSet
  /\ pc = "start"
  /\ t = 0
  /\ params = params0
  /\ data = data0
  /\ sharded_key = 0
  /\ subkeys = Unbound
  /\ opt_state_pt = Unbound
  /\ target = NoTuple
  /\ loss = NoTuple
  /\ logprob = Unbound
  /\ ret = NoTuple
  /\ nSteps = 0
  /\ nEvals = 0
  /\ nSplits = 0
  /\ logCalls = <<>>
  /\ stepLosses = <<>>
  /\ lastOut = NoTuple
  /\ mhCalls = <<>>
  /\ OrbIdle
  /\ PbcIdle

\* Lines 232-254: optimizer state, the pmapped step, and the initial logprob.
Setup ==
  /\ pc = "start"
  /\ opt_state_pt' = 0
  /\ logprob' = 2 * batch_network(netKind, params, data)
  /\ pc' = "loop"
  /\ UNCHANGED <<orbVars, pbcVars>>
  /\ UNCHANGED <<iterations, logger, netKind, params0, data0, t, params, data,
                 sharded_key, subkeys, target, loss, ret, nSteps, nEvals,
                 nSplits, logCalls, stepLosses, lastOut, mhCalls>>

\* Line 256: for t in range(iterations)
LoopTest ==
  /\ pc = "loop"
  /\ pc' = IF LoopContinues(t, iterations) THEN "eval" ELSE "return"
  /\ UNCHANGED <<orbVars, pbcVars>>
  /\ UNCHANGED <<iterations, logger, netKind, params0, data0, t, params, data,
                 sharded_key, subkeys, opt_state_pt, target, loss, logprob,
                 ret, nSteps, nEvals, nSplits, logCalls, stepLosses, lastOut,
                 mhCalls>>

\* Line 257: target = eval_orbitals(scf_approx, data, electrons)
EvalTarget ==
  /\ pc = "eval"
  /\ target' = HfTarget(data)
  /\ nEvals' = nEvals + 1
  /\ pc' = "split"
  /\ UNCHANGED <<orbVars, pbcVars>>
  /\ UNCHANGED <<iterations, logger, netKind, params0, data0, t, params, data,
                 sharded_key, subkeys, opt_state_pt, loss, logprob, ret,
                 nSteps, nSplits, logCalls, stepLosses, lastOut, mhCalls>>

\* Line 258: sharded_key, subkeys = kfac_jax.utils.p_split(sharded_key)
SplitKey ==
  /\ pc = "split"
  /\ sharded_key' = PSplitKey(sharded_key)
  /\ subkeys' = PSplitSub(sharded_key)
  /\ nSplits' = nSplits + 1
  /\ pc' = "step"
  /\ UNCHANGED <<orbVars, pbcVars>>
  /\ UNCHANGED <<iterations, logger, netKind, params0, data0, t, params, data,
                 opt_state_pt, target, loss, logprob, ret, nSteps, nEvals,
                 logCalls, stepLosses, lastOut, mhCalls>>

\* mcmc.mh_update(params, f, x1, key, lp_1, num_accepts): one Metropolis-
\* Hastings move.  The proposal is accepted or rejected; the returned log
\* probability is that of the proposal under params when accepted and the
\* lp_1 passed in when rejected.
MhData(accept, prop, x1) == IF accept THEN prop ELSE x1
MhLogprob(kind, accept, prop, p, lp_1) ==
  IF accept THEN 2 * batch_network(kind, p, prop) ELSE lp_1

\* Lines 259-260 with pretrain_step, lines 151-182: the loss and its
\* gradient at the current params, the optimizer update, then one MCMC move
\* at the updated params with the logprob carried in.
PretrainStep ==
  /\ pc = "step"
  /\ \E updates \in 0..1, accept \in BOOLEAN, prop \in DataSet :
       LET newParams == ApplyUpdates(params, updates)
           newData == MhData(accept, prop, data)
           loss_val == LossVal(params, data, target)
       IN /\ newParams \in ParamSet
          /\ mhCalls' = Append(mhCalls, [params |-> newParams, data |-> data,
                                          key |-> subkeys,
                                          logprob |-> logprob])
          /\ params' = newParams
          /\ data' = newData
          /\ opt_state_pt' = opt_state_pt + 1
          /\ loss' = loss_val
          /\ logprob' = MhLogprob(netKind, accept, prop, newParams, logprob)
          /\ stepLosses' = Append(stepLosses, loss_val)
          /\ lastOut' = <<newParams, newData>>
  /\ nSteps' = nSteps + 1
  /\ pc' = "log"
  /\ UNCHANGED <<orbVars, pbcVars>>
  /\ UNCHANGED <<iterations, logger, netKind, params0, data0, t, sharded_key,
                 subkeys, target, ret, nEvals, nSplits, logCalls>>

\* Lines 261-263: logging.info, then `if logger: logger(t, loss[0])`; the
\* loop index advances.
LogIter ==
  /\ pc = "log"
  /\ logCalls' = IF Truthy(logger)
                 THEN Append(logCalls, [step |-> t, value |-> loss[1],
                                        after |-> nSteps])
                 ELSE logCalls
  /\ t' = t + 1
  /\ pc' = "loop"
  /\ UNCHANGED <<orbVars, pbcVars>>
  /\ UNCHANGED <<iterations, logger, netKind, params0, data0, params, data,
                 sharded_key, subkeys, opt_state_pt, target, loss, logprob,
                 ret, nSteps, nEvals, nSplits, stepLosses, lastOut, mhCalls>>

\* Line 264: return params, data
Return ==
  /\ pc = "return"
  /\ ret' = <<params, data>>
  /\ pc' = "done"
  /\ UNCHANGED <<orbVars, pbcVars>>
  /\ UNCHANGED <<iterations, logger, netKind, params0, data0, t, params, data,
                 sharded_key, subkeys, opt_state_pt, target, loss, logprob,
                 nSteps, nEvals, nSplits, logCalls, stepLosses, lastOut,
                 mhCalls>>

Next == Setup \/ LoopTest \/ EvalTarget \/ SplitKey \/ PretrainStep
          \/ LogIter \/ Return

Spec == Init /\ [][Next]_vars

\* The loop is sequential code: a step that can run does run.
FairSpec == Init /\ [][Next]_vars /\ WF_vars(Next)

\* pretrain_hartree_fock not running.
PretrainIdle ==
  /\ iterations = 0
  /\ logger = None
  /\ netKind = "const"
  /\ params0 = 0
  /\ data0 = 0
  /\ pc = "idle"
  /\ t = 0
  /\ params = 0
  /\ data = 0
  /\ sharded_key = 0
  /\ subkeys = Unbound
  /\ opt_state_pt = Unbound
  /\ target = NoTuple
  /\ loss = NoTuple
  /\ logprob = Unbound
  /\ ret = NoTuple
  /\ nSteps = 0
  /\ nEvals = 0
  /\ nSplits = 0
  /\ logCalls = <<>>
  /\ stepLosses = <<>>
  /\ lastOut = NoTuple
  /\ mhCalls = <<>>

(***************************************************************************)
(* eval_orbitals as a state machine: one call on one input.                *)
(***************************************************************************)

\* The arguments.  nspins counts at least one electron, and the SCF solution
\* has at least as many molecular orbitals per channel as it occupies.
OrbInit ==
  /\ posKind \in ArrayKinds \cup OtherKinds
  /\ nspins \in {ns \in (0..MaxSpin) \X (0..MaxSpin) : ns[1] + ns[2] >= 1}
  /\ nbasis \in 1..MaxBasis
  /\ nbasis >= nspins[1]
  /\ nbasis >= nspins[2]
  /\ IF posKind \in ArrayKinds
     THEN \E lead \in LeadSet : pos = PosArray(lead, nspins[1] + nspins[2])
     ELSE pos = NoTuple
  /\ orbPc = "call"
  /\ orbOut = [status |-> "none", value |-> NoTuple]
  /\ evalMosCalls = 0
  /\ PretrainIdle
  /\ PbcIdle

\* Lines 84-88: anything that is not an np.ndarray is copied; an object
\* without a copy method raises ValueError.
OrbCheckInput ==
  /\ orbPc = "call"
  /\ IF IsNdarray(posKind) \/ HasCopy(posKind)
     THEN /\ orbPc' = "eval"
          /\ orbOut' = orbOut
     ELSE /\ orbPc' = "done"
          /\ orbOut' = [status |-> "ValueError", value |-> NoTuple]
  /\ UNCHANGED <<posKind, pos, nspins, nbasis, evalMosCalls>>
  /\ UNCHANGED <<pretrainVars, pbcVars>>

\* Lines 89-99: pos.shape is read (AttributeError when there is none), the
\* molecular orbitals are evaluated and sliced.
OrbEvaluate ==
  /\ orbPc = "eval"
  /\ IF HasShape(posKind)
     THEN /\ evalMosCalls' = evalMosCalls + 1
          /\ orbOut' = [status |-> "ok",
                        value |-> EvalOrbitalsArray(pos, nspins, nbasis)]
     ELSE /\ evalMosCalls' = evalMosCalls
          /\ orbOut' = [status |-> "AttributeError", value |-> NoTuple]
  /\ orbPc' = "done"
  /\ UNCHANGED <<posKind, pos, nspins, nbasis>>
  /\ UNCHANGED <<pretrainVars, pbcVars>>

OrbNext == OrbCheckInput \/ OrbEvaluate

OrbSpec == OrbInit /\ [][OrbNext]_vars

(***************************************************************************)
(* The PBC local energy and test_periodicity.                              *)
(*                                                                         *)
(* Coordinates are integers in units of 1/Grid of the lattice constant, so *)
(* that the identity lattice of the test has the lattice vectors           *)
(* Grid * (integer vector).  Energies are integers.                        *)
(***************************************************************************)

\* The test's system, scaled down: nspins, atoms (on the grid), charges.
TestNspins == <<1, 1>>
TestAtoms == <<<<0, 0, 0>>, <<1, 1, 0>>, <<2, -1, 1>>>>
TestCharges == <<2, 5, 7>>
TestNdim == 3
SeedKey == 42

NElec == TestNspins[1] + TestNspins[2]

RECURSIVE SumTo(_, _)
SumTo(f, n) == IF n = 0 THEN 0 ELSE f[n] + SumTo(f, n - 1)

\* The image of a displacement in the unit cell of the lattice: what the
\* periodic feature layer and the Ewald sum see of it.
PeriodicImage_Mutant(d) == d
PeriodicImage(d) == d % Grid

\* Coordinate d (1..ndim) of electron i (1..nelec) in the flattened xs.
Coord(x, i, d) == x[TestNdim * (i - 1) + d]

\* The periodic pair term of two points along one axis (minimum image).
PairTerm(d) ==
  LET w == PeriodicImage(d) IN IF 2 * w > Grid THEN Grid - w ELSE w

\* log|psi|(params, x): the network on periodic features of the
\* electron-atom and electron-electron displacements.
LogPsi(p, x) ==
  LET ea == [i \in 1..NElec |->
               SumTo([a \in 1..Len(TestAtoms) |->
                        SumTo([d \in 1..TestNdim |->
                                 (p + a + d)
                                   * PeriodicImage(Coord(x, i, d)
                                                   - TestAtoms[a][d])],
                              TestNdim)],
                     Len(TestAtoms))]
      ee == [i \in 1..NElec |->
               SumTo([j \in 1..NElec |->
                        IF j = i THEN 0
                        ELSE SumTo([d \in 1..TestNdim |->
                                      (i + d) * PeriodicImage(
                                         Coord(x, i, d) - Coord(x, j, d))],
                                   TestNdim)],
                     NElec)]
  IN SumTo(ea, NElec) + SumTo(ee, NElec)

\* x with coordinate k moved by h grid units.
Nudge(x, k, h) == [x EXCEPT ![k] = @ + h]

\* The kinetic energy: second differences of log|psi| and the squares of
\* its first differences over every coordinate.
Kinetic(p, x) ==
  LET term == [k \in 1..Len(x) |->
                 LET up == LogPsi(p, Nudge(x, k, 1))
                     dn == LogPsi(p, Nudge(x, k, -1))
                     at == LogPsi(p, x)
                 IN (up + dn - 2 * at) + (up - at) * (up - at)]
  IN 0 - SumTo(term, Len(x))

\* The potential energy: the periodic (Ewald) sum over electron pairs and
\* electron-atom pairs.
Potential(x) ==
  LET ee == [i \in 1..NElec |->
               SumTo([j \in 1..NElec |->
                        IF j <= i THEN 0
                        ELSE SumTo([d \in 1..TestNdim |->
                                      PairTerm(Coord(x, i, d)
                                               - Coord(x, j, d))],
                                   TestNdim)],
                     NElec)]
      ea == [i \in 1..NElec |->
               SumTo([a \in 1..Len(TestAtoms) |->
                        TestCharges[a]
                          * SumTo([d \in 1..TestNdim |->
                                     PairTerm(Coord(x, i, d)
                                              - TestAtoms[a][d])],
                                  TestNdim)],
                     Len(TestAtoms))]
  IN SumTo(ee, NElec) - SumTo(ea, NElec)

\* local_energy(params, key, x): kinetic plus potential; the key is unused.
LocalEnergy(p, k, x) == Kinetic(p, x) + Potential(x)

\* xs.flatten()
Flatten(rows) ==
  [k \in 1..(Len(rows) * TestNdim) |->
     rows[((k - 1) \div TestNdim) + 1][((k - 1) % TestNdim) + 1]]

\* Line 78: xs.at[e_idx].add(randvec).  randvec is an integer vector and
\* the lattice is the identity, so it is a lattice vector: Grid * randvec on
\* the grid.  e is the 0-based electron index.
Displace(rows, e, v) ==
  [rows EXCEPT ![e + 1] = [d \in 1..TestNdim |-> @[d] + Grid * v[d]]]

\* np.testing.assert_allclose(a, b, atol=4e-3, rtol=4e-3):
\* |a - b| <= atol + rtol * |b|, in thousandths.
Abs(n) == IF n < 0 THEN 0 - n ELSE n
AllClose(a, b) == 1000 * Abs(a - b) <= 4 + 4 * Abs(b)

\* Lines 32-59: the key is seeded and split, xs is drawn uniformly in the
\* unit cell, the key is split again and the network parameters are drawn.
PbcInit ==
  /\ pbcPc = "energy1"
  /\ key = PSplitKey(PSplitKey(SeedKey))
  /\ xs \in [1..NElec -> [1..TestNdim -> 0..(Grid - 1)]]
  /\ netParams \in ParamSet
  /\ e_idx = Unbound
  /\ randvec = NoTuple
  /\ e1 = Unbound
  /\ e2 = Unbound
  /\ verdict = "none"
  /\ PretrainIdle
  /\ OrbIdle

\* Lines 70-71
PbcEnergy1 ==
  /\ pbcPc = "energy1"
  /\ key' = PSplitKey(key)
  /\ e1' = LocalEnergy(netParams, PSplitSub(key), Flatten(xs))
  /\ pbcPc' = "displace"
  /\ UNCHANGED <<xs, netParams, e_idx, randvec, e2, verdict>>
  /\ UNCHANGED <<pretrainVars, orbVars>>

\* Lines 74-78: a random electron and a random integer vector.
PbcDisplace ==
  /\ pbcPc = "displace"
  /\ \E e \in 0..(Len(xs) - 1), v \in [1..TestNdim -> 0..(MaxVec - 1)] :
       /\ e_idx' = e
       /\ randvec' = v
       /\ xs' = Displace(xs, e, v)
  /\ key' = PSplitKey(PSplitKey(key))
  /\ pbcPc' = "energy2"
  /\ UNCHANGED <<netParams, e1, e2, verdict>>
  /\ UNCHANGED <<pretrainVars, orbVars>>

\* Lines 80-81
PbcEnergy2 ==
  /\ pbcPc = "energy2"
  /\ key' = PSplitKey(key)
  /\ e2' = LocalEnergy(netParams, PSplitSub(key), Flatten(xs))
  /\ pbcPc' = "assert"
  /\ UNCHANGED <<xs, netParams, e_idx, randvec, e1, verdict>>
  /\ UNCHANGED <<pretrainVars, orbVars>>

\* Lines 83-84
PbcAssert ==
  /\ pbcPc = "assert"
  /\ verdict' = IF AllClose(e1, e2) THEN "pass" ELSE "fail"
  /\ pbcPc' = "done"
  /\ UNCHANGED <<key, xs, netParams, e_idx, randvec, e1, e2>>
  /\ UNCHANGED <<pretrainVars, orbVars>>

PbcNext == PbcEnergy1 \/ PbcDisplace \/ PbcEnergy2 \/ PbcAssert

PbcSpec == PbcInit /\ [][PbcNext]_vars

(***************************************************************************)
(* Properties of the PBC local energy                                      *)
(***************************************************************************)

ElectronAt(a, nelec, b, e) ==
  <<a.flat[(b * nelec + e) * 3 + 1], a.flat[(b * nelec + e) * 3 + 2],
    a.flat[(b * nelec + e) * 3 + 3]>>

\* C4: eval_orbitals returns (alpha, beta) with the leading dimensions of
\* pos; alpha[i, j] is spin-up orbital j at electron i (i, j < nspins[0]),
\* beta[i, j] is spin-down orbital j at electron nspins[0] + i
\* (i, j < nspins[1]); no electron has a row in both matrices.
C4_OrbitalsSplitBySpin ==
  (orbPc = "done" /\ orbOut.status = "ok") =>
    LET lead == Leading(pos.shape)
        na == nspins[1]
        nb == nspins[2]
        alpha == orbOut.value[1]
        beta == orbOut.value[2]
    IN /\ alpha.shape = lead \o <<na, na>>
       /\ beta.shape = lead \o <<nb, nb>>
       /\ Len(alpha.flat) = Prod(lead) * na * na
       /\ Len(beta.flat) = Prod(lead) * nb * nb
       /\ \A b \in 0..(Prod(lead) - 1) :
            /\ \A i \in 0..(na - 1), j \in 0..(na - 1) :
                 alpha.flat[(b * na + i) * na + j + 1]
                   = MoValue("alpha", j, ElectronAt(pos, na + nb, b, i))
            /\ \A i \in 0..(nb - 1), j \in 0..(nb - 1) :
                 beta.flat[(b * nb + i) * nb + j + 1]
                   = MoValue("beta", j, ElectronAt(pos, na + nb, b, na + i))
       /\ {alpha.flat[k][3] : k \in 1..Len(alpha.flat)}
            \cap {beta.flat[k][3] : k \in 1..Len(beta.flat)} = {}

C4_Witness ==
  /\ orbPc = "done"
  /\ orbOut.status = "ok"
  /\ posKind = "jax"
  /\ nspins = <<2, 1>>
  /\ nbasis = 3
  /\ pos.shape = <<2, 2, 9>>
  /\ Len(orbOut.value[1].flat) = 16
  /\ Len(orbOut.value[2].flat) = 4

\* C5: when pos is neither a NumPy nor a JAX array eval_orbitals raises
\* ValueError without having evaluated any molecular orbital; for a NumPy
\* or JAX array it does not raise it.
C5_NonArrayRaisesValueError ==
  orbPc = "done" =>
    /\ posKind \notin ArrayKinds =>
         (orbOut.status = "ValueError" /\ evalMosCalls = 0)
    /\ posKind \in ArrayKinds => orbOut.status # "ValueError"

\* What does hold of the error paths: no molecular orbital is evaluated on
\* them, and arrays take none of them.
OrbErrorPaths ==
  orbPc = "done" =>
    /\ orbOut.status # "ok" => evalMosCalls = 0
    /\ posKind \in ArrayKinds <=> orbOut.status = "ok"

(***************************************************************************)
(* Properties of pretrain_hartree_fock                                     *)
(***************************************************************************)

\* C2: pretrain_hartree_fock terminates; it never performs more than
\* `iterations` pretraining steps and has performed exactly `iterations` of
\* them when it returns; what it returns is the (params, data) output by the
\* last pretrain_step; with iterations = 0 there is no step, no orbital
\* evaluation and no key split, and the arguments are returned unchanged.
C2_PretrainTerminates ==
  /\ <>(pc = "done")
  /\ [](nSteps <= iterations)
  /\ [](pc = "done" =>
          /\ nSteps = iterations
          /\ nEvals = iterations
          /\ nSplits = iterations
          /\ (iterations > 0 => ret = lastOut)
          /\ (iterations = 0 => ret = <<params0, data0>>))

C2_Witness ==
  /\ pc = "done"
  /\ iterations = MaxIter
  /\ nSteps = MaxIter
  /\ ret = lastOut
  /\ ret # <<params0, data0>>

\* C3: a logger that is supplied (not None) has, on return, been called
\* once per iteration, with steps 0, 1, ..., iterations-1 in that order, the
\* i-th call made after the i-th step and before the next one, with the
\* first device's entry of the loss that step returned.
C3_LoggerCalledEachIteration ==
  (logger # None /\ pc = "done") =>
     /\ Len(logCalls) = iterations
     /\ \A i \in 1..Len(logCalls) :
          /\ logCalls[i].step = i - 1
          /\ logCalls[i].after = i
          /\ logCalls[i].value = stepLosses[i][1]

\* The same for a logger that `if logger:` finds truthy, at every point of
\* the run; and a logger that is None is never called.
LoggerTruthyOrder ==
  /\ Truthy(logger) =>
       /\ Len(logCalls) = (IF pc = "log" THEN nSteps - 1 ELSE nSteps)
       /\ \A i \in 1..Len(logCalls) :
            /\ logCalls[i].step = i - 1
            /\ logCalls[i].after = i
            /\ logCalls[i].value = stepLosses[i][1]
  /\ logger = None => logCalls = <<>>

\* C6: in every call of mcmc.mh_update the logprob passed is twice the
\* network's value at the params and data passed in that call.
C6_LogprobMatchesCallParams ==
  \A i \in 1..Len(mhCalls) :
    mhCalls[i].logprob
      = 2 * batch_network(netKind, mhCalls[i].params, mhCalls[i].data)

====
